---- MODULE Spec2Model ----
(***************************************************************************)
(* Model of the GIB partnership backend (src/server.js).                   *)
(*                                                                         *)
(* Money is held in units of 1e-5 dollar (one thousandth of a cent), so    *)
(* that gross * STRIPE_FEE_PERCENT + STRIPE_FEE_FIXED is exact for every   *)
(* amount given in whole cents.  Rates are held in units of 1e-5.  The     *)
(* store rounds money to NUMERIC(12,2) (cents) and rates to NUMERIC(5,4).  *)
(* JavaScript's binary floating point is replaced by exact arithmetic.     *)
(***************************************************************************)
EXTENDS Integers, Sequences, FiniteSets, TLC

VARIABLES
    cfg,            \* TAPFILIATE_API_KEY / TAPFILIATE_PROGRAM_ID present
    partners,       \* table partners, in insertion order (id = position)
    ledger,         \* table partner_earnings, in insertion order
    tapAffiliates,  \* affiliates the external service has created so far
    conversions,    \* conversions the external service holds for the interval asked
    job,            \* the runs of syncPartnerEarningsFromTapfiliate
    lastRun,        \* history: the last run that returned totals
    runs,           \* history: runs started
    manualUpserts,  \* history: POST /api/partner-earnings/test calls served
    svcChanges,     \* history: changes of the external conversion set
    apps,           \* table partner_applications, in insertion order
    adminLogs,      \* table admin_logs, in insertion order
    tasks,          \* the calls made without await: forwardEmailToLanding, syncTapfiliateAffiliate
    replies,        \* the responses sent so far
    hook,           \* the Stripe webhook request being served, if any
    adminToken,     \* process.env.ADMIN_API_TOKEN, "" when not set
    adminAttempts,  \* adminAttempts: client key -> count, lockedUntil
    now,            \* Date.now(), in hours
    stripeCfg,      \* STRIPE_SECRET_KEY and STRIPE_WEBHOOK_SECRET are both set
    submits,        \* submissions past the email SELECT, before their INSERT
    appSeq          \* the SERIAL of partner_applications: ids given out so far

onboardVars == <<apps, adminLogs, tasks, replies, hook>>

gateVars == <<adminToken, adminAttempts, now>>

intakeVars == <<stripeCfg, submits, appSeq>>

vars == <<cfg, partners, ledger, tapAffiliates, conversions, job, lastRun,
          runs, manualUpserts, svcChanges, apps, adminLogs, tasks, replies, hook,
          adminToken, adminAttempts, now, stripeCfg, submits, appSeq>>

----------------------------------------------------------------------------
(* Bounds of the model *)

MaxRuns == 2
MaxManual == 1
MaxPartners == 2
MaxSvcChanges == 1
MaxAffiliates == 2
MaxApps == 2
MaxTasks == 3
MaxLogs == 3
MaxNow == 4

----------------------------------------------------------------------------
(* Program constants *)

PAGE_SIZE == 50
MAX_PAGES == 5
\* PARTNER_COMMISSION_RATE 0.35 in units of 1e-5
GLOBAL_COMMISSION_RATE == 35000
\* STRIPE_FEE_PERCENT 0.029 in thousandths; STRIPE_FEE_FIXED 0.30 in 1e-5 dollar
STRIPE_FEE_PERCENT == 29
STRIPE_FEE_FIXED == 30000
\* NUMERIC(12,2): one cent in 1e-5 dollar; NUMERIC(5,4): one step in 1e-5, and
\* the first rate that no longer fits (10.0000)
CENT == 1000
RATE_STEP == 10
RATE_LIMIT == 1000000

----------------------------------------------------------------------------
(* JavaScript values: undefined, numbers, NaN and strings *)

Undef == [t |-> "undef", n |-> 0]
Num(n) == [t |-> "num", n |-> n]
NaN == [t |-> "nan", n |-> 0]
\* a string that does not read as a number, and one that does
StrText == [t |-> "text", n |-> 0]
StrNum(n) == [t |-> "numstr", n |-> n]

\* truthiness as used by || and ! : undefined, 0, NaN and '' are falsy
Truthy(v) ==
    CASE v.t = "undef" -> FALSE
      [] v.t = "nan" -> FALSE
      [] v.t = "num" -> v.n # 0
      [] OTHER -> TRUE

\* a || b
Or(a, b) == IF Truthy(a) THEN a ELSE b

\* Number(v)
ToNumber(v) ==
    CASE v.t = "num" -> v
      [] v.t = "numstr" -> Num(v.n)
      [] OTHER -> NaN

\* Number(v) || 0
NumberOrZero(v) == LET x == ToNumber(v) IN IF Truthy(x) THEN x.n ELSE 0

Max(a, b) == IF a >= b THEN a ELSE b

----------------------------------------------------------------------------
(* Strings the code inspects character by character *)

Digits == <<"0", "1", "2", "3", "4", "5", "6", "7", "8", "9">>
UpperCase == <<"A", "B", "C", "D", "E", "F", "G", "H", "I", "J", "K", "L", "M",
               "N", "O", "P", "Q", "R", "S", "T", "U", "V", "W", "X", "Y", "Z">>
LowerCase == <<"a", "b", "c", "d", "e", "f", "g", "h", "i", "j", "k", "l", "m",
               "n", "o", "p", "q", "r", "s", "t", "u", "v", "w", "x", "y", "z">>

IsDigit(c) == \E i \in 1..10 : Digits[i] = c
DigitVal(c) == (CHOOSE i \in 1..10 : Digits[i] = c) - 1

LowerMap ==
    [c \in {UpperCase[i] : i \in 1..26} |->
        LowerCase[CHOOSE i \in 1..26 : UpperCase[i] = c]]

LowerChar(c) == IF c \in DOMAIN LowerMap THEN LowerMap[c] ELSE c

\* s.toLowerCase()
ToLowerCase(s) == [i \in 1..Len(s) |-> LowerChar(s[i])]

\* Number() of a string of digits
RECURSIVE DigitsToNumber(_)
DigitsToNumber(s) ==
    IF Len(s) = 0 THEN 0
    ELSE 10 * DigitsToNumber(SubSeq(s, 1, Len(s) - 1)) + DigitVal(s[Len(s)])

\* /^\d{4}-\d{2}$/.test(s)
PeriodRegex(s) ==
    /\ Len(s) = 7
    /\ \A i \in {1, 2, 3, 4, 6, 7} : IsDigit(s[i])
    /\ s[5] = "-"

NoDate == [y |-> 0, m |-> 0, d |-> 0]

DaysInMonth(y, m) ==
    CASE m \in {4, 6, 9, 11} -> 30
      [] m = 2 -> IF (y % 4 = 0 /\ y % 100 # 0) \/ y % 400 = 0 THEN 29 ELSE 28
      [] OTHER -> 31

\* the store reading a text as a DATE column value; NoDate when it raises
ParseDate(s) ==
    IF /\ Len(s) = 10
       /\ \A i \in {1, 2, 3, 4, 6, 7, 9, 10} : IsDigit(s[i])
       /\ s[5] = "-" /\ s[8] = "-"
    THEN LET y == DigitsToNumber(SubSeq(s, 1, 4))
             m == DigitsToNumber(SubSeq(s, 6, 7))
             d == DigitsToNumber(SubSeq(s, 9, 10))
         IN IF y >= 1 /\ m \in 1..12 /\ d >= 1 /\ d <= DaysInMonth(y, m)
            THEN [y |-> y, m |-> m, d |-> d]
            ELSE NoDate
    ELSE NoDate

----------------------------------------------------------------------------
(* The store's numeric columns (values here are never negative) *)

\* NUMERIC(12,2): round half up to the cent
RoundCents(x) == ((x + CENT \div 2) \div CENT) * CENT

\* NUMERIC(5,4): round half up to 1e-4
RoundRate(r) == ((r + RATE_STEP \div 2) \div RATE_STEP) * RATE_STEP

\* net * rate, an exact product of a 1e-5 dollar amount (below 1e9) and a 1e-5
\* rate, rounded half up to the cent as the NUMERIC(12,2) column does; the
\* product is formed in base 10^4 limbs to stay within machine integers
CommissionCents(net, rate) ==
    LET a1 == net \div 10000
        a0 == net % 10000
        b1 == rate \div 10000
        b0 == rate % 10000
        mid == a1 * b0 + a0 * b1
        low == a0 * b0
        frac == (mid % 10000) * 10000 + low
    IN (a1 * b1 + mid \div 10000 + (frac + 50000000) \div 100000000) * CENT

----------------------------------------------------------------------------
(* Conversion records of the external service *)

\* an absent nested object, and one with the three fields the code probes
\* ("" stands for an absent field: undefined and '' are both falsy)
NoObj == [present |-> FALSE, id |-> "", affiliate |-> "", affiliate_id |-> ""]
Obj(id, aff, affId) ==
    [present |-> TRUE, id |-> id, affiliate |-> aff, affiliate_id |-> affId]

NoStr == <<>>
USD == <<"U", "S", "D">>
usd == <<"u", "s", "d">>
EUR == <<"E", "U", "R">>

ConvRec(isNull, a, ap, apa, amount, commAmount, cur, commCur) ==
    [isNull |-> isNull, affiliate |-> a, affiliate_program |-> ap,
     affiliate_program_affiliate |-> apa, amount |-> amount,
     commission_amount |-> commAmount, currency |-> cur,
     commission_currency |-> commCur]

\* The records the service may hold, by number:
\*  1 {affiliate:{id:"A1"}, amount:1, currency:"usd"}
\*  2 {affiliate:{id:"A1"}, amount:100, currency:"USD"}
\*  3 {affiliate:{id:"A1"}, amount:0, currency:"USD"}
\*  4 {affiliate:{id:"A1"}, amount:0, commission_amount:5, currency:"USD"}
\*  5 {affiliate:{id:"A9"}, amount:100, currency:"USD"}     (A9: no partner)
\*  6 {amount:100, currency:"usd"}                          (no affiliate)
\*  7 {affiliate_program:{affiliate_id:"A2"}, amount:"1.01", commission:{currency:"EUR"}}
\*  8 {affiliate:{id:"A1"}, amount:"abc"}
\*  9 {affiliate:{id:"A1"}, amount:-5, currency:"usd"}
\* 10 {affiliate:{id:"A1"}, amount:0.41}
\* 11 null
\* 12 {affiliate:{id:"A1"}, amount:0.30, currency:"usd"}
ConvTable == <<
    ConvRec(FALSE, Obj("A1", "", ""), NoObj, NoObj, Num(100000), Undef, usd, NoStr),
    ConvRec(FALSE, Obj("A1", "", ""), NoObj, NoObj, Num(10000000), Undef, USD, NoStr),
    ConvRec(FALSE, Obj("A1", "", ""), NoObj, NoObj, Num(0), Undef, USD, NoStr),
    ConvRec(FALSE, Obj("A1", "", ""), NoObj, NoObj, Num(0), Num(500000), USD, NoStr),
    ConvRec(FALSE, Obj("A9", "", ""), NoObj, NoObj, Num(10000000), Undef, USD, NoStr),
    ConvRec(FALSE, NoObj, NoObj, NoObj, Num(10000000), Undef, usd, NoStr),
    ConvRec(FALSE, NoObj, Obj("", "", "A2"), NoObj, StrNum(101000), Undef, NoStr, EUR),
    ConvRec(FALSE, Obj("A1", "", ""), NoObj, NoObj, StrText, Undef, NoStr, NoStr),
    ConvRec(FALSE, Obj("A1", "", ""), NoObj, NoObj, Num(-500000), Undef, usd, NoStr),
    ConvRec(FALSE, Obj("A1", "", ""), NoObj, NoObj, Num(41000), Undef, NoStr, NoStr),
    ConvRec(TRUE, NoObj, NoObj, NoObj, Undef, Undef, NoStr, NoStr),
    ConvRec(FALSE, Obj("A1", "", ""), NoObj, NoObj, Num(30000), Undef, usd, NoStr) >>

ConvIds == 1..Len(ConvTable)
FillId == 1

\* The service's holdings: `full` pages of PAGE_SIZE copies of record FillId,
\* followed by the records of `tail`
FullPageCounts == {0, 1, MAX_PAGES, MAX_PAGES + 1}

\* what follows the full pages: nothing, any one record, or records 2 and 7
Tails == {<<>>} \cup {<<c>> : c \in ConvIds} \cup {<<2, 7>>}

Datasets == [full : FullPageCounts, tail : Tails]

Held(ds) == [i \in 1..(ds.full * PAGE_SIZE) |-> FillId] \o ds.tail

\* the records the service returns for page `page` (pages of PAGE_SIZE records)
ServicePage(ds, page) ==
    LET held == ds.full * PAGE_SIZE + Len(ds.tail)
        first == (page - 1) * PAGE_SIZE + 1
        last == IF page * PAGE_SIZE <= held THEN page * PAGE_SIZE ELSE held
    IN IF first > held THEN <<>>
       ELSE [i \in 1..(last - first + 1) |->
               IF first + i - 1 <= ds.full * PAGE_SIZE THEN FillId
               ELSE ds.tail[first + i - 1 - ds.full * PAGE_SIZE]]

----------------------------------------------------------------------------
(* Aggregation by partner and currency *)

\* conv.affiliate || conv.affiliate_program || conv.affiliate_program_affiliate || null
AffiliateOf(conv) ==
    IF conv.affiliate.present THEN conv.affiliate
    ELSE IF conv.affiliate_program.present THEN conv.affiliate_program
    ELSE conv.affiliate_program_affiliate

\* affiliate && (affiliate.id || affiliate.affiliate || affiliate.affiliate_id)
AffiliateIdOf(conv) ==
    LET a == AffiliateOf(conv)
    IN IF ~a.present THEN ""
       ELSE IF a.id # "" THEN a.id
       ELSE IF a.affiliate # "" THEN a.affiliate
       ELSE a.affiliate_id

\* Number(conv.amount || conv.commission_amount || 0)
GrossOf(conv) == ToNumber(Or(Or(conv.amount, conv.commission_amount), Num(0)))

\* !gross || Number.isNaN(gross) || gross <= 0
GrossRejected(g) == ~Truthy(g) \/ g.t = "nan" \/ g.n <= 0

\* variant: the currency code is taken as the service spells it
CurrencyOfAsGiven(conv) ==
    IF conv.currency # NoStr THEN conv.currency
    ELSE IF conv.commission_currency # NoStr THEN conv.commission_currency
    ELSE usd

\* (conv.currency || (conv.commission && conv.commission.currency) || 'usd').toLowerCase()
CurrencyOf(conv) ==
    ToLowerCase(IF conv.currency # NoStr THEN conv.currency
                ELSE IF conv.commission_currency # NoStr THEN conv.commission_currency
                ELSE usd)

\* gross * STRIPE_FEE_PERCENT + STRIPE_FEE_FIXED
FeeOf(gross) == (gross * STRIPE_FEE_PERCENT) \div 1000 + STRIPE_FEE_FIXED

\* variant: the difference is not clamped at 0
NetOfUnclamped(gross) == gross - FeeOf(gross)

\* Math.max(gross - fee, 0)
NetOf(gross) == Max(gross - FeeOf(gross), 0)

\* variant: partners without an affiliate id are entered under the empty id
AffiliateToPartnerAll(rows) ==
    [a \in {rows[i].tapfiliate_affiliate_id : i \in 1..Len(rows)} |->
        rows[CHOOSE i \in 1..Len(rows) :
               /\ rows[i].tapfiliate_affiliate_id = a
               /\ \A k \in 1..Len(rows) :
                     rows[k].tapfiliate_affiliate_id = a => k <= i].id]

\* affiliateToPartner: later rows overwrite earlier ones with the same id
AffiliateToPartner(rows) ==
    LET linked == {i \in 1..Len(rows) : rows[i].tapfiliate_affiliate_id # ""}
    IN [a \in {rows[i].tapfiliate_affiliate_id : i \in linked} |->
          rows[CHOOSE i \in linked :
                 /\ rows[i].tapfiliate_affiliate_id = a
                 /\ \A k \in linked :
                       rows[k].tapfiliate_affiliate_id = a => k <= i].id]

\* bucket[key].gross += gross; bucket[key].net += net, creating the bucket first
AddToBucket(bucket, partnerId, currency, gross, net) ==
    IF \E i \in 1..Len(bucket) :
          bucket[i].partnerId = partnerId /\ bucket[i].currency = currency
    THEN [i \in 1..Len(bucket) |->
            IF bucket[i].partnerId = partnerId /\ bucket[i].currency = currency
            THEN [bucket[i] EXCEPT !.gross = @ + gross, !.net = @ + net]
            ELSE bucket[i]]
    ELSE Append(bucket, [partnerId |-> partnerId, currency |-> currency,
                         gross |-> gross, net |-> net])

\* variant: the bucket is created before the amount is looked at
AggregateOneEagerBucket(acc, conv, map) ==
    IF acc.thrown THEN acc
    ELSE IF conv.isNull THEN [acc EXCEPT !.thrown = TRUE]
    ELSE LET affiliateId == AffiliateIdOf(conv)
             g == GrossOf(conv)
         IN IF affiliateId = "" THEN acc
            ELSE IF affiliateId \notin DOMAIN map THEN acc
            ELSE IF GrossRejected(g)
            THEN [acc EXCEPT !.bucket =
                    AddToBucket(@, map[affiliateId], CurrencyOf(conv), 0, 0)]
            ELSE [acc EXCEPT !.bucket =
                    AddToBucket(@, map[affiliateId], CurrencyOf(conv), g.n, NetOf(g.n))]

\* one pass of the loop body over a conversion; acc.thrown: a TypeError left it
AggregateOne(acc, conv, map) ==
    IF acc.thrown THEN acc
    ELSE IF conv.isNull THEN [acc EXCEPT !.thrown = TRUE]
    ELSE LET affiliateId == AffiliateIdOf(conv)
             g == GrossOf(conv)
         IN IF affiliateId = "" THEN acc
            ELSE IF affiliateId \notin DOMAIN map THEN acc
            ELSE IF GrossRejected(g) THEN acc
            ELSE [acc EXCEPT !.bucket =
                    AddToBucket(@, map[affiliateId], CurrencyOf(conv), g.n, NetOf(g.n))]

\* the loop over allConversions[lo..hi], in order (split in halves to keep the
\* evaluation shallow)
RECURSIVE AggregateFrom(_, _, _, _, _)
AggregateFrom(acc, ids, lo, hi, map) ==
    IF acc.thrown \/ lo > hi THEN acc
    ELSE IF lo = hi THEN AggregateOne(acc, ConvTable[ids[lo]], map)
    ELSE LET mid == (lo + hi) \div 2
             left == AggregateFrom(acc, ids, lo, mid, map)
         IN AggregateFrom(left, ids, mid + 1, hi, map)

\* the bucket object after the loop over allConversions, keys in insertion order
Aggregate(ids, map) ==
    AggregateFrom([bucket |-> <<>>, thrown |-> FALSE], ids, 1, Len(ids), map)

----------------------------------------------------------------------------
(* Table partner_earnings and upsertPartnerEarnings *)

SameKey(r, q) ==
    r.partner_id = q.partner_id /\ r.period = q.period /\ r.currency = q.currency

\* variant: the commission is taken on the gross sum
EarningsRowOnGross(args) ==
    LET rate == NumberOrZero(args.commissionRate)
        net == NumberOrZero(args.netRevenue)
        gross == NumberOrZero(args.grossRevenue)
    IN [partner_id |-> args.partnerId,
        period |-> ParseDate(args.period),
        currency |-> args.currency,
        gross_revenue |-> RoundCents(gross),
        net_revenue |-> RoundCents(net),
        commission_rate |-> RoundRate(rate),
        commission_amount |-> CommissionCents(gross, rate),
        source |-> "manual_test"]

\* the values bound to the INSERT, as the columns hold them
EarningsRow(args) ==
    LET rate == NumberOrZero(args.commissionRate)
        net == NumberOrZero(args.netRevenue)
        gross == NumberOrZero(args.grossRevenue)
    IN [partner_id |-> args.partnerId,
        period |-> ParseDate(args.period),
        currency |-> args.currency,
        gross_revenue |-> RoundCents(gross),
        net_revenue |-> RoundCents(net),
        commission_rate |-> RoundRate(rate),
        commission_amount |-> CommissionCents(net, rate),
        source |-> "manual_test"]

\* the statement is refused: no such date, no such partner (REFERENCES
\* partners(id)), a rate that overflows NUMERIC(5,4), a currency over VARCHAR(10)
StoreRefuses(row, partnerRows) ==
    \/ row.period = NoDate
    \/ row.partner_id \notin {partnerRows[i].id : i \in 1..Len(partnerRows)}
    \/ row.commission_rate >= RATE_LIMIT
    \/ Len(row.currency) > 10

\* variant: the conflict is not detected and a second row is inserted
InsertAlways(table, row) == Append(table, row)

\* variant: on conflict the sums are added to the stored ones
InsertAccumulate(table, row) ==
    IF \E i \in 1..Len(table) : SameKey(table[i], row)
    THEN [i \in 1..Len(table) |->
            IF SameKey(table[i], row)
            THEN [row EXCEPT !.gross_revenue = @ + table[i].gross_revenue,
                             !.net_revenue = @ + table[i].net_revenue,
                             !.commission_amount = @ + table[i].commission_amount]
            ELSE table[i]]
    ELSE Append(table, row)

\* INSERT ... ON CONFLICT (partner_id, period, currency) DO UPDATE SET ...
InsertOrUpdate(table, row) ==
    IF \E i \in 1..Len(table) : SameKey(table[i], row)
    THEN [i \in 1..Len(table) |-> IF SameKey(table[i], row) THEN row ELSE table[i]]
    ELSE Append(table, row)

\* upsertPartnerEarnings: ok = FALSE when it throws; dbUp: the store answers
UpsertPartnerEarnings(table, partnerRows, args, dbUp) ==
    LET row == EarningsRow(args)
    IN IF ~dbUp \/ StoreRefuses(row, partnerRows)
       THEN [ok |-> FALSE, table |-> table, row |-> row]
       ELSE [ok |-> TRUE, table |-> InsertOrUpdate(table, row), row |-> row]

----------------------------------------------------------------------------
(* syncPartnerEarningsFromTapfiliate *)

Jobs == {1, 2}

P_2025_01 == <<"2", "0", "2", "5", "-", "0", "1">>
P_2025_12 == <<"2", "0", "2", "5", "-", "1", "2">>
P_2025_13 == <<"2", "0", "2", "5", "-", "1", "3">>
P_SLASH == <<"2", "0", "2", "5", "/", "0", "1">>
PeriodInputs == {P_2025_01, P_2025_12, P_2025_13, P_SLASH}

RespKinds == {"error", "array", "unreadable", "object"}

\* history: no failed run precedes
NoPrev == [failed |-> FALSE, periodYm |-> <<>>, fetched |-> <<>>, map |-> <<>>,
           start |-> <<>>, alone |-> FALSE, writes |-> 0]

IdleJob ==
    [pc |-> "idle", periodYm |-> <<>>, map |-> <<>>, page |-> 0,
     allConversions |-> <<>>, bucket |-> <<>>, next |-> 0, totals |-> <<>>,
     result |-> "none", error |-> "", note |-> "",
     requests |-> 0, storeAccess |-> FALSE, writes |-> 0, httpFailed |-> FALSE,
     heldAll |-> FALSE, alone |-> TRUE, rerun |-> FALSE, sameAsLast |-> FALSE,
     start |-> <<>>, prev |-> NoPrev, interleaved |-> FALSE]

Running(j) == job[j].pc \in {"fetch", "upsert"}

\* throw new Error(...)
Throw(jr, error) == [jr EXCEPT !.pc = "done", !.result = "error", !.error = error]

\* return { period, totals, note }
Return(jr, note) ==
    [jr EXCEPT !.pc = "done", !.result = "ok", !.note = note,
               !.sameAsLast = /\ jr.rerun
                              /\ lastRun.valid
                              /\ lastRun.fetched = jr.allConversions
                              /\ lastRun.map = jr.map]

\* history: the run jr, when a refused or unanswered upsert ended it
FailedRun(jr) ==
    IF jr.error = "store"
    THEN [failed |-> TRUE, periodYm |-> jr.periodYm, fetched |-> jr.allConversions,
          map |-> jr.map, start |-> jr.start, alone |-> jr.alone,
          writes |-> jr.writes]
    ELSE NoPrev

Recorded(jr, table) ==
    [valid |-> jr.alone, periodYm |-> jr.periodYm, fetched |-> jr.allConversions,
     map |-> jr.map, ledger |-> table]

\* variant: the partner query runs before the two checks
SyncBeginQueryFirst(jr, config, partnerRows) ==
    LET map == AffiliateToPartner(partnerRows)
        loaded == [jr EXCEPT !.storeAccess = TRUE, !.map = map]
    IN IF ~config.apiKey \/ ~config.programId THEN Throw(loaded, "config")
       ELSE IF ~PeriodRegex(jr.periodYm) THEN Throw(loaded, "period")
       ELSE IF DOMAIN map = {} THEN Return(loaded, "no_partners")
       ELSE [loaded EXCEPT !.pc = "fetch", !.page = 1]

\* the checks and the partner query that precede the fetch loop
SyncBegin(jr, config, partnerRows) ==
    IF ~config.apiKey \/ ~config.programId THEN Throw(jr, "config")
    ELSE IF ~PeriodRegex(jr.periodYm) THEN Throw(jr, "period")
    ELSE LET map == AffiliateToPartner(partnerRows)
             loaded == [jr EXCEPT !.storeAccess = TRUE, !.map = map]
         IN IF DOMAIN map = {} THEN Return(loaded, "no_partners")
            ELSE [loaded EXCEPT !.pc = "fetch", !.page = 1]

\* variant: a failed response ends the loop like an empty page
FetchLoopStepLenient(all, page, kind, records) ==
    LET pageData == IF kind = "array" THEN records ELSE <<>>
    IN IF kind \in {"object", "error"} \/ Len(pageData) = 0
       THEN [ctl |-> "break", all |-> all]
       ELSE IF Len(pageData) < PAGE_SIZE
       THEN [ctl |-> "break", all |-> all \o pageData]
       ELSE IF page + 1 <= MAX_PAGES
       THEN [ctl |-> "next", all |-> all \o pageData]
       ELSE [ctl |-> "break", all |-> all \o pageData]

\* variant: the loop goes on for as long as pages are full
FetchLoopStepNoCap(all, page, kind, records) ==
    IF kind = "error" THEN [ctl |-> "throw", all |-> all]
    ELSE LET pageData == IF kind = "array" THEN records ELSE <<>>
         IN IF kind = "object" \/ Len(pageData) = 0
            THEN [ctl |-> "break", all |-> all]
            ELSE IF Len(pageData) < PAGE_SIZE
            THEN [ctl |-> "break", all |-> all \o pageData]
            ELSE [ctl |-> "next", all |-> all \o pageData]

\* variant: a short page does not end the loop, only an empty one does
FetchLoopStepPastShort(all, page, kind, records) ==
    IF kind = "error" THEN [ctl |-> "throw", all |-> all]
    ELSE LET pageData == IF kind = "array" THEN records ELSE <<>>
         IN IF kind = "object" \/ Len(pageData) = 0
            THEN [ctl |-> "break", all |-> all]
            ELSE IF page + 1 <= MAX_PAGES
            THEN [ctl |-> "next", all |-> all \o pageData]
            ELSE [ctl |-> "break", all |-> all \o pageData]

\* one pass of the page loop on a response: what the loop does next, and
\* allConversions after it
FetchLoopStep(all, page, kind, records) ==
    IF kind = "error" THEN [ctl |-> "throw", all |-> all]
    ELSE LET pageData == IF kind = "array" THEN records ELSE <<>>
         IN IF kind = "object" \/ Len(pageData) = 0
            THEN [ctl |-> "break", all |-> all]
            ELSE IF Len(pageData) < PAGE_SIZE
            THEN [ctl |-> "break", all |-> all \o pageData]
            ELSE IF page + 1 <= MAX_PAGES
            THEN [ctl |-> "next", all |-> all \o pageData]
            ELSE [ctl |-> "break", all |-> all \o pageData]

\* after the aggregation loop: on to the upserts, one per key of bucket
SyncBuckets(jr, acc) ==
    IF acc.thrown THEN Throw(jr, "type")
    ELSE IF Len(acc.bucket) = 0 THEN Return(jr, "")
    ELSE [jr EXCEPT !.pc = "upsert", !.bucket = acc.bucket, !.next = 1]

\* from the end of the page loop to the first upsert
SyncAggregate(jr) ==
    IF Len(jr.allConversions) = 0 THEN Return(jr, "no_conversions")
    ELSE SyncBuckets(jr, Aggregate(jr.allConversions, jr.map))

\* the arguments of the upsert of one bucket
BucketArgs(b, periodYm) ==
    [partnerId |-> b.partnerId,
     period |-> periodYm \o <<"-", "0", "1">>,
     currency |-> b.currency,
     grossRevenue |-> Num(b.gross),
     netRevenue |-> Num(b.net),
     commissionRate |-> Num(GLOBAL_COMMISSION_RATE)]

\* totals.push({...})
TotalsEntry(b, row) ==
    [partner_id |-> b.partnerId, currency |-> b.currency, gross |-> b.gross,
     net |-> b.net, commission_rate |-> GLOBAL_COMMISSION_RATE,
     commission_amount |-> row.commission_amount]

JobStart(j, periodYm) ==
    /\ job[j].pc \in {"idle", "done"}
    /\ runs < MaxRuns
    /\ LET fresh == [IdleJob EXCEPT !.periodYm = periodYm,
                                    !.rerun = /\ lastRun.valid
                                              /\ lastRun.periodYm = periodYm
                                              /\ lastRun.ledger = ledger,
                                    !.start = ledger,
                                    !.prev = FailedRun(job[j])]
           jr == SyncBegin(fresh, cfg, partners)
       IN /\ job' = [job EXCEPT ![j] = jr]
          /\ lastRun' = IF job'[j].result = "ok" THEN Recorded(job'[j], ledger)
                         ELSE lastRun
    /\ runs' = runs + 1
    /\ UNCHANGED <<onboardVars, gateVars, intakeVars, cfg, partners, ledger, tapAffiliates, conversions,
                   manualUpserts, svcChanges>>

FetchPage(j, kind) ==
    /\ job[j].pc = "fetch"
    /\ LET step == FetchLoopStep(job[j].allConversions, job[j].page, kind,
                                 ServicePage(conversions, job[j].page))
           asked == [job[j] EXCEPT !.requests = @ + 1,
                                   !.httpFailed = @ \/ kind = "error",
                                   !.allConversions = step.all]
           jr == CASE step.ctl = "throw" -> Throw(asked, "fetch")
                   [] step.ctl = "next" -> [asked EXCEPT !.page = @ + 1]
                   [] OTHER ->
                        SyncAggregate([asked EXCEPT
                            !.heldAll = step.all = Held(conversions)])
       IN /\ job' = [job EXCEPT ![j] = jr]
          /\ lastRun' = IF job'[j].result = "ok" THEN Recorded(job'[j], ledger)
                         ELSE lastRun
    /\ UNCHANGED <<onboardVars, gateVars, intakeVars, cfg, partners, ledger, tapAffiliates, conversions, runs,
                   manualUpserts, svcChanges>>

UpsertBucket(j, dbUp) ==
    /\ job[j].pc = "upsert"
    /\ LET b == job[j].bucket[job[j].next]
           res == UpsertPartnerEarnings(ledger, partners,
                                        BucketArgs(b, job[j].periodYm), dbUp)
           wrote == [job[j] EXCEPT !.writes = @ + 1,
                                   !.interleaved = @ \/ \E k \in Jobs \ {j} :
                                       job[k].pc = "upsert" /\ job[k].writes > 0,
                                   !.totals = Append(@, TotalsEntry(b, res.row)),
                                   !.next = @ + 1]
           jr == IF ~res.ok THEN Throw(job[j], "store")
                 ELSE IF wrote.next > Len(wrote.bucket) THEN Return(wrote, "")
                 ELSE wrote
       IN /\ job' = [job EXCEPT ![j] = jr]
          /\ ledger' = res.table
          /\ lastRun' = IF job'[j].result = "ok" THEN Recorded(job'[j], ledger')
                         ELSE lastRun
    /\ UNCHANGED <<onboardVars, gateVars, intakeVars, cfg, partners, tapAffiliates, conversions, runs,
                   manualUpserts, svcChanges>>

----------------------------------------------------------------------------
(* POST /api/partner-earnings/test, past requireAdmin *)

D_JAN_01 == <<"2", "0", "2", "5", "-", "0", "1", "-", "0", "1">>
D_JAN_15 == <<"2", "0", "2", "5", "-", "0", "1", "-", "1", "5">>

\* gross_revenue, net_revenue, commission_rate of a request body:
\* 100 / 96.80 / 0.35 ; absent / 0.0145 / 0.35 ; 5 / "abc" / 0.12345 ; 1 / 1 / 35
ManualValues ==
    { <<Num(10000000), Num(9680000), Num(35000)>>,
      <<Undef, Num(1450), Num(35000)>>,
      <<Num(500000), StrText, Num(12345)>>,
      <<Num(100000), Num(100000), Num(3500000)>> }

ManualBody(partnerId, period, currency, values) ==
    [partnerId |-> partnerId, period |-> period, currency |-> currency,
     values |-> values]

\* request bodies: one well-formed body per value triple, and bodies that
\* differ from the first in one field (0 and NoStr: the field is absent)
ManualBodies ==
    {ManualBody(1, D_JAN_01, usd, v) : v \in ManualValues}
    \cup {ManualBody(p, D_JAN_01, usd, <<Num(10000000), Num(9680000), Num(35000)>>) :
            p \in {0, 2}}
    \cup {ManualBody(1, d, usd, <<Num(10000000), Num(9680000), Num(35000)>>) :
            d \in {NoStr, D_JAN_15}}
    \cup {ManualBody(1, D_JAN_01, c, <<Num(10000000), Num(9680000), Num(35000)>>) :
            c \in {NoStr, USD}}

ManualArgs(body) ==
    [partnerId |-> body.partnerId, period |-> body.period,
     currency |-> body.currency, grossRevenue |-> body.values[1],
     netRevenue |-> body.values[2], commissionRate |-> body.values[3]]

\* !partnerId || !period || !currency
ManualRejected(body) ==
    body.partnerId = 0 \/ body.period = NoStr \/ body.currency = NoStr

ManualUpsert(body) ==
    /\ manualUpserts < MaxManual
    /\ manualUpserts' = manualUpserts + 1
    /\ LET res == UpsertPartnerEarnings(ledger, partners, ManualArgs(body), TRUE)
       IN ledger' = IF ManualRejected(body) THEN ledger ELSE res.table
    /\ job' = [j \in Jobs |->
                 IF job[j].pc = "idle" THEN job[j]
                 ELSE [job[j] EXCEPT !.rerun = @ /\ ledger' = ledger,
                                     !.alone = @ /\ ledger' = ledger]]
    /\ UNCHANGED <<onboardVars, gateVars, intakeVars, cfg, partners, tapAffiliates, conversions, lastRun, runs,
                   svcChanges>>

----------------------------------------------------------------------------
(* The external service and the creation of partners *)

ServiceChange(ds) ==
    /\ svcChanges < MaxSvcChanges
    /\ \A j \in Jobs : ~Running(j)
    /\ ds # conversions
    /\ ds.full = conversions.full \/ ds.tail = conversions.tail
    /\ conversions' = ds
    /\ svcChanges' = svcChanges + 1
    /\ UNCHANGED <<onboardVars, gateVars, intakeVars, cfg, partners, ledger, tapAffiliates, job, lastRun, runs,
                   manualUpserts>>

AffNames == <<"A1", "A2", "A3", "A4">>
AppIds == {1}
RequestIds == {1, 2}

PartnerRow(id, appId, affId) ==
    [id |-> id, application_id |-> appId, tapfiliate_affiliate_id |-> affId]

\* variant: the insert without its ON CONFLICT clause on a table without the
\* unique application_id
InsertPartnerAlways(rows, appId, affId) ==
    Append(rows, PartnerRow(Len(rows) + 1, appId, affId))

\* INSERT INTO partners ... ON CONFLICT (application_id) DO NOTHING; 0 is NULL
InsertPartner(rows, appId, affId) ==
    IF appId # 0 /\ \E i \in 1..Len(rows) : rows[i].application_id = appId
    THEN rows
    ELSE Append(rows, PartnerRow(Len(rows) + 1, appId, affId))

\* createTapfiliateAffiliateForEmail, called by the Stripe webhook for a
\* completed checkout: createOk / progOk are the service's two answers
StripeCheckout(createOk, progOk) ==
    /\ cfg.apiKey /\ cfg.programId
    /\ Len(partners) < MaxPartners
    /\ tapAffiliates < MaxAffiliates
    /\ createOk
    /\ tapAffiliates' = tapAffiliates + 1
    /\ partners' = IF progOk
                   THEN InsertPartner(partners, 0, AffNames[tapAffiliates + 1])
                   ELSE partners
    /\ UNCHANGED <<onboardVars, gateVars, intakeVars, cfg, ledger, conversions, job, lastRun, runs, manualUpserts,
                   svcChanges>>

\* POST /api/partner-applications/:id/approve: its insert into partners
Approve(id) ==
    /\ Len(partners) < MaxPartners
    /\ partners' = InsertPartner(partners, id, "")
    /\ UNCHANGED <<onboardVars, gateVars, intakeVars, cfg, ledger, tapAffiliates, conversions, job, lastRun, runs,
                   manualUpserts, svcChanges>>

----------------------------------------------------------------------------
(* Applications, their approval, and the calls made beside a request *)

Emails == {"e1", "e2"}

earnVars == <<ledger, conversions, job, lastRun, runs, manualUpserts, svcChanges>>

\* a row of partner_applications; first: history, the first affiliate id stored
AppRow(id, email) ==
    [id |-> id, email |-> email, status |-> "pending",
     tapfiliate_affiliate_id |-> "", first |-> ""]

Reply(endpoint, status, body) ==
    [endpoint |-> endpoint, status |-> status, body |-> body]

\* a call in flight; seen: the affiliate id the sync read from the application;
\* created, failed, programOk, logged: history of what the call did
NewTask(kind, app) ==
    [kind |-> kind, app |-> app, pc |-> IF kind = "sync" THEN "load" ELSE "post",
     affiliateId |-> "", seen |-> "", created |-> FALSE, failed |-> FALSE,
     programOk |-> FALSE, logged |-> FALSE]

Pending == LET RECURSIVE Sum(_)
               Sum(es) == IF es = {} THEN 0
                          ELSE LET e == CHOOSE x \in es : TRUE
                               IN submits[e] + Sum(es \ {e})
           IN Sum(Emails)

\* SELECT id FROM partner_applications WHERE email = $1 LIMIT 1 found a row
EmailTaken(rows, email) == \E i \in 1..Len(rows) : rows[i].email = email

\* POST /api/partner-application up to the answer of its email SELECT:
\* complete = the required fields are there
SubmitApplication(email, complete) ==
    /\ IF ~complete
       THEN /\ replies' = replies \cup {Reply("apply", 400, "missing")}
            /\ UNCHANGED submits
       ELSE IF EmailTaken(apps, email)
       THEN /\ replies' = replies \cup {Reply("apply", 400, "email_used")}
            /\ UNCHANGED submits
       ELSE /\ appSeq + Pending < MaxApps
            /\ submits' = [submits EXCEPT ![email] = @ + 1]
            /\ UNCHANGED replies
    /\ UNCHANGED <<cfg, partners, tapAffiliates, apps, adminLogs, tasks, hook,
                   earnVars, gateVars, stripeCfg, appSeq>>

\* the rest of the handler: the INSERT, the call of forwardEmailToLanding
\* without await, and the response
SubmitInsert(email) ==
    /\ submits[email] > 0
    /\ Len(tasks) < MaxTasks
    /\ submits' = [submits EXCEPT ![email] = @ - 1]
    /\ appSeq' = appSeq + 1
    /\ apps' = Append(apps, AppRow(appSeq + 1, email))
    /\ tasks' = Append(tasks, NewTask("forward", appSeq + 1))
    /\ replies' = replies \cup {Reply("apply", 200, "submitted")}
    /\ UNCHANGED <<cfg, partners, tapAffiliates, adminLogs, hook, earnVars,
                   gateVars, stripeCfg>>

\* forwardEmailToLanding coming to its end: the endpoint answered ok, answered
\* not ok, or the request threw; all three are logged and swallowed
ForwardFinish(t, outcome) ==
    /\ t \in 1..Len(tasks)
    /\ tasks[t].kind = "forward" /\ tasks[t].pc = "post"
    /\ tasks' = [tasks EXCEPT ![t].pc = "end", ![t].failed = outcome # "ok"]
    /\ UNCHANGED <<cfg, partners, tapAffiliates, apps, adminLogs, replies, hook,
                   earnVars, gateVars, intakeVars>>

LogEntry(action, appId, affiliate) ==
    [action |-> action, application_id |-> appId, affiliate |-> affiliate]

\* POST /api/partner-applications/:id/approve, past requireAdmin, up to its
\* response; syncTapfiliateAffiliate(id) is left running
ApproveRequest(id) ==
    /\ Len(tasks) < MaxTasks
    /\ \/ \E i \in 1..Len(partners) : partners[i].application_id = id
       \/ Len(partners) < MaxPartners
    /\ apps' = [i \in 1..Len(apps) |->
                  IF apps[i].id = id THEN [apps[i] EXCEPT !.status = "approved"]
                  ELSE apps[i]]
    /\ adminLogs' = Append(adminLogs, LogEntry("approve", id, ""))
    /\ partners' = InsertPartner(partners, id, "")
    /\ tasks' = Append(tasks, NewTask("sync", id))
    /\ replies' = replies \cup {Reply("approve", 200, "approved")}
    /\ UNCHANGED <<cfg, tapAffiliates, hook, earnVars, intakeVars>>

\* POST /api/partner-applications/:id/reject, past requireAdmin
RejectRequest(id) ==
    /\ Len(adminLogs) < MaxLogs
    /\ apps' = [i \in 1..Len(apps) |->
                  IF apps[i].id = id THEN [apps[i] EXCEPT !.status = "rejected"]
                  ELSE apps[i]]
    /\ adminLogs' = Append(adminLogs, LogEntry("reject", id, ""))
    /\ replies' = replies \cup {Reply("reject", 200, "rejected")}
    /\ UNCHANGED <<cfg, partners, tapAffiliates, tasks, hook, earnVars, intakeVars>>

\* DELETE /api/partner-applications, past requireAdmin
ClearApplications ==
    /\ Len(adminLogs) < MaxLogs
    /\ apps' = <<>>
    /\ adminLogs' = Append(adminLogs, LogEntry("clear_all", 0, ""))
    /\ replies' = replies \cup {Reply("clear", 200, "deleted")}
    /\ UNCHANGED <<cfg, partners, tapAffiliates, tasks, hook, earnVars, intakeVars>>

\* syncTapfiliateAffiliate up to the SELECT of the application
SyncLoaded(task, config, rows) ==
    IF ~config.apiKey \/ ~config.programId THEN [task EXCEPT !.pc = "end"]
    ELSE IF \A i \in 1..Len(rows) : rows[i].id # task.app
    THEN [task EXCEPT !.pc = "end"]
    ELSE LET appRow == rows[CHOOSE i \in 1..Len(rows) : rows[i].id = task.app]
         IN [task EXCEPT !.affiliateId = appRow.tapfiliate_affiliate_id,
                         !.seen = appRow.tapfiliate_affiliate_id,
                         !.pc = IF appRow.tapfiliate_affiliate_id = ""
                                THEN "create" ELSE "program"]

SyncLoad(t) ==
    /\ t \in 1..Len(tasks)
    /\ tasks[t].kind = "sync" /\ tasks[t].pc = "load"
    /\ tasks' = [tasks EXCEPT ![t] = SyncLoaded(tasks[t], cfg, apps)]
    /\ UNCHANGED <<cfg, partners, tapAffiliates, apps, adminLogs, replies, hook,
                   earnVars, gateVars, intakeVars>>

\* step 1: POST /affiliates/ ; ok = the service answered with an id
SyncCreate(t, ok) ==
    /\ t \in 1..Len(tasks)
    /\ tasks[t].kind = "sync" /\ tasks[t].pc = "create"
    /\ ok => tapAffiliates < MaxAffiliates
    /\ tapAffiliates' = IF ok THEN tapAffiliates + 1 ELSE tapAffiliates
    /\ tasks' = IF ok
                THEN [tasks EXCEPT ![t].affiliateId = AffNames[tapAffiliates + 1],
                                   ![t].created = TRUE,
                                   ![t].pc = "store"]
                ELSE [tasks EXCEPT ![t].failed = TRUE, ![t].pc = "end"]
    /\ UNCHANGED <<cfg, partners, apps, adminLogs, replies, hook, earnVars, gateVars, intakeVars>>

\* UPDATE partner_applications SET tapfiliate_affiliate_id = $1 WHERE id = $2
StoreAffiliateId(rows, appId, affiliateId) ==
    [i \in 1..Len(rows) |->
        IF rows[i].id = appId
        THEN [rows[i] EXCEPT !.tapfiliate_affiliate_id = affiliateId,
                             !.first = IF @ = "" THEN affiliateId ELSE @]
        ELSE rows[i]]

SyncStore(t) ==
    /\ t \in 1..Len(tasks)
    /\ tasks[t].kind = "sync" /\ tasks[t].pc = "store"
    /\ apps' = StoreAffiliateId(apps, tasks[t].app, tasks[t].affiliateId)
    /\ tasks' = [tasks EXCEPT ![t].pc = "program"]
    /\ UNCHANGED <<cfg, partners, tapAffiliates, adminLogs, replies, hook,
                   earnVars, gateVars, intakeVars>>

\* variant: the log entry is written whatever the program call answered
AfterProgramAlwaysLog(task, ok) ==
    [task EXCEPT !.programOk = ok, !.failed = ~ok, !.pc = "log"]

\* after step 2, POST /programs/<id>/affiliates/ : on to the log entry, or out
AfterProgram(task, ok) ==
    IF ok THEN [task EXCEPT !.programOk = TRUE, !.pc = "log"]
    ELSE [task EXCEPT !.failed = TRUE, !.pc = "end"]

SyncProgram(t, ok) ==
    /\ t \in 1..Len(tasks)
    /\ tasks[t].kind = "sync" /\ tasks[t].pc = "program"
    /\ tasks' = [tasks EXCEPT ![t] = AfterProgram(tasks[t], ok)]
    /\ UNCHANGED <<cfg, partners, tapAffiliates, apps, adminLogs, replies, hook,
                   earnVars, gateVars, intakeVars>>

\* INSERT INTO admin_logs ... 'tapfiliate_sync'
SyncLog(t) ==
    /\ t \in 1..Len(tasks)
    /\ tasks[t].kind = "sync" /\ tasks[t].pc = "log"
    /\ adminLogs' = Append(adminLogs, LogEntry("tapfiliate_sync", tasks[t].app,
                                               tasks[t].affiliateId))
    /\ tasks' = [tasks EXCEPT ![t].logged = TRUE, ![t].pc = "end"]
    /\ UNCHANGED <<cfg, partners, tapAffiliates, apps, replies, hook, earnVars, gateVars, intakeVars>>

COMPLETED == "checkout.session.completed"
EventTypes == {COMPLETED, "invoice.paid"}

\* variant: every verified event with an email goes on to the affiliate
\* creation, whatever its type
WebhookRouteAnyType(configured, sigOk, type, hasEmail) ==
    IF ~configured THEN [status |-> 500, create |-> FALSE]
    ELSE IF ~sigOk THEN [status |-> 400, create |-> FALSE]
    ELSE [status |-> 200, create |-> hasEmail]

\* the webhook handler's way through its checks: the status it answers with,
\* and whether it calls createTapfiliateAffiliateForEmail before answering
WebhookRoute(configured, sigOk, type, hasEmail) ==
    IF ~configured THEN [status |-> 500, create |-> FALSE]
    ELSE IF ~sigOk THEN [status |-> 400, create |-> FALSE]
    ELSE [status |-> 200, create |-> type = COMPLETED /\ hasEmail]

\* POST /webhooks/stripe up to its response or, for a verified
\* checkout.session.completed event with an email, up to the await of
\* createTapfiliateAffiliateForEmail; sigOk = constructEvent did not throw
StripeWebhookReceive(sigOk, type, hasEmail) ==
    /\ hook = "idle"
    /\ LET route == WebhookRoute(stripeCfg, sigOk, type, hasEmail)
       IN IF route.create
          THEN /\ hook' = "awaiting"
               /\ UNCHANGED replies
          ELSE /\ replies' = replies \cup
                     {Reply("stripe", route.status,
                            IF route.status = 200 THEN "received" ELSE "error")}
               /\ UNCHANGED hook
    /\ UNCHANGED <<cfg, partners, tapAffiliates, apps, adminLogs, tasks,
                   earnVars, gateVars, intakeVars>>

\* createTapfiliateAffiliateForEmail has come to its end (createOk, progOk: the
\* service's two answers); the handler sends res.json({ received: true })
StripeWebhookFinish(createOk, progOk) ==
    /\ hook = "awaiting"
    /\ LET configured == cfg.apiKey /\ cfg.programId
           made == configured /\ createOk
           linked == made /\ progOk
       IN /\ made => tapAffiliates < MaxAffiliates
          /\ linked => Len(partners) < MaxPartners
          /\ tapAffiliates' = IF made THEN tapAffiliates + 1 ELSE tapAffiliates
          /\ partners' = IF linked
                         THEN InsertPartner(partners, 0, AffNames[tapAffiliates + 1])
                         ELSE partners
    /\ replies' = replies \cup {Reply("stripe", 200, "received")}
    /\ hook' = "idle"
    /\ UNCHANGED <<cfg, apps, adminLogs, tasks, earnVars, gateVars, intakeVars>>

----------------------------------------------------------------------------
(* requireAdmin *)

Keys == {"ip1", "ip2"}
Tokens == {"", "good", "bad"}
LOCK_AFTER == 3
WINDOW_HOURS == 2

NoRecord == [count |-> 0, lockedUntil |-> 0]

Locked(record, t) == record.lockedUntil # 0 /\ t < record.lockedUntil

\* variant: the token is looked at before the lock
AdminGateTokenFirst(record, t, token, configured) ==
    IF token # "" /\ token = configured THEN [status |-> 0, record |-> NoRecord]
    ELSE IF Locked(record, t) THEN [status |-> 429, record |-> record]
    ELSE LET count == record.count + 1
         IN [status |-> 401,
             record |-> [count |-> count,
                         lockedUntil |-> IF count >= LOCK_AFTER
                                         THEN t + WINDOW_HOURS
                                         ELSE record.lockedUntil]]

\* variant: the token is only compared with the configured one
AdminGateCompareOnly(record, t, token, configured) ==
    IF Locked(record, t) THEN [status |-> 429, record |-> record]
    ELSE IF token # configured
    THEN LET count == record.count + 1
         IN [status |-> 401,
             record |-> [count |-> count,
                         lockedUntil |-> IF count >= LOCK_AFTER
                                         THEN t + WINDOW_HOURS
                                         ELSE record.lockedUntil]]
    ELSE [status |-> 0, record |-> NoRecord]

\* variant: a lock that has run out takes the count with it
AdminGateExpiryResets(record, t, token, configured) ==
    LET kept == IF record.lockedUntil # 0 /\ t >= record.lockedUntil
                THEN NoRecord ELSE record
    IN IF Locked(kept, t) THEN [status |-> 429, record |-> kept]
       ELSE IF token = "" \/ token # configured
       THEN LET count == kept.count + 1
            IN [status |-> 401,
                record |-> [count |-> count,
                            lockedUntil |-> IF count >= LOCK_AFTER
                                            THEN t + WINDOW_HOURS
                                            ELSE kept.lockedUntil]]
       ELSE [status |-> 0, record |-> NoRecord]

\* the middleware on one request: status 0 stands for next(); record is the
\* key's entry of adminAttempts afterwards
AdminGate(record, t, token, configured) ==
    IF Locked(record, t) THEN [status |-> 429, record |-> record]
    ELSE IF token = "" \/ token # configured
    THEN LET count == record.count + 1
         IN [status |-> 401,
             record |-> [count |-> count,
                         lockedUntil |-> IF count >= LOCK_AFTER
                                         THEN t + WINDOW_HOURS
                                         ELSE record.lockedUntil]]
    ELSE [status |-> 0, record |-> NoRecord]

\* a request to a route behind requireAdmin: the middleware, then the handler
\* if the middleware called next()
RequireAdmin(key, token, endpoint, handler) ==
    LET gate == AdminGate(adminAttempts[key], now, token, adminToken)
    IN /\ adminAttempts' = [adminAttempts EXCEPT ![key] = gate.record]
       /\ UNCHANGED <<adminToken, now>>
       /\ IF gate.status = 0
          THEN handler
          ELSE /\ replies' = replies \cup {Reply("admin", gate.status, "denied")}
               /\ UNCHANGED <<cfg, partners, tapAffiliates, apps, adminLogs,
                              tasks, hook, earnVars, intakeVars>>

\* time passing between requests
Tick ==
    /\ now < MaxNow
    /\ now' = now + 1
    /\ UNCHANGED <<cfg, partners, tapAffiliates, onboardVars, earnVars,
                   adminToken, adminAttempts, intakeVars>>

----------------------------------------------------------------------------

Configs == { [apiKey |-> TRUE, programId |-> TRUE],
             [apiKey |-> FALSE, programId |-> TRUE],
             [apiKey |-> TRUE, programId |-> FALSE] }

NoRun == [valid |-> FALSE, periodYm |-> <<>>, fetched |-> <<>>, map |-> <<>>,
          ledger |-> <<>>]

\* datasets that fit in one short page, of records 2, 3 and 7
ShortDatasets ==
    {ds \in Datasets :
        ds.full = 0 /\ \A i \in 1..Len(ds.tail) : ds.tail[i] \in {2, 3, 7}}

Quiet == \A j \in Jobs : ~Running(j)

InitData(configs, datasets) ==
    /\ cfg \in configs
    /\ partners = <<>>
    /\ ledger = <<>>
    /\ tapAffiliates = 0
    /\ conversions \in datasets
    /\ job = [j \in Jobs |-> IdleJob]
    /\ lastRun = NoRun
    /\ runs = 0
    /\ manualUpserts = 0
    /\ svcChanges = 0
    /\ apps = <<>>
    /\ adminLogs = <<>>
    /\ tasks = <<>>
    /\ replies = {}
    /\ hook = "idle"
    /\ adminAttempts = [k \in Keys |-> NoRecord]
    /\ now = 1
    /\ submits = [e \in Emails |-> 0]
    /\ appSeq = 0

InitWith(configs, datasets) ==
    /\ InitData(configs, datasets)
    /\ adminToken = "good"
    /\ stripeCfg = TRUE

\* The ledger over repeated runs, manual upserts and a changing conversion
\* set; the service holds at most one short page
Init == InitWith({c \in Configs : c.apiKey /\ c.programId}, ShortDatasets)

Next ==
    \/ \E p \in PeriodInputs \ {P_SLASH} : JobStart(1, p)
    \/ \E kind \in RespKinds : FetchPage(1, kind)
    \/ \E dbUp \in BOOLEAN : UpsertBucket(1, dbUp)
    \/ \E body \in ManualBodies : ManualUpsert(body)
    \/ \E ds \in ShortDatasets : ServiceChange(ds)
    \/ \E createOk, progOk \in BOOLEAN : Quiet /\ StripeCheckout(createOk, progOk)
    \/ \E id \in AppIds : Quiet /\ Approve(id)

Spec == Init /\ [][Next]_vars

\* One run of the job over every dataset, pages included
InitPages == InitWith(Configs, Datasets)

NextPages ==
    \/ \E p \in PeriodInputs : runs = 0 /\ JobStart(1, p)
    \/ \E kind \in RespKinds : FetchPage(1, kind)
    \/ \E dbUp \in BOOLEAN : UpsertBucket(1, dbUp)
    \/ \E createOk, progOk \in BOOLEAN : Quiet /\ StripeCheckout(createOk, progOk)
    \/ \E id \in AppIds : Quiet /\ Approve(id)

SpecPages == InitPages /\ [][NextPages]_vars

\* Two runs of the job side by side, with a store and a service that answer
InitPair == InitWith({c \in Configs : c.apiKey /\ c.programId}, ShortDatasets)

NextPair ==
    \/ \E j \in Jobs, p \in {P_2025_01, P_2025_12} : JobStart(j, p)
    \/ \E j \in Jobs : FetchPage(j, "array")
    \/ \E j \in Jobs : UpsertBucket(j, TRUE)
    \/ \E createOk, progOk \in BOOLEAN : Quiet /\ StripeCheckout(createOk, progOk)

SpecPair == InitPair /\ [][NextPair]_vars

\* Applications, approvals and the Stripe webhook, with no earnings run and
\* one application: a submission is the first one, or one the handler refuses
FirstOrRefused(email, complete) ==
    appSeq + Pending = 0 \/ ~complete \/ EmailTaken(apps, email)

InitOnboard ==
    /\ InitData(Configs, {[full |-> 0, tail |-> <<>>]})
    /\ adminToken = "good"
    /\ stripeCfg \in BOOLEAN

NextOnboard ==
    \/ \E email \in Emails, complete \in BOOLEAN :
          FirstOrRefused(email, complete) /\ SubmitApplication(email, complete)
    \/ \E email \in Emails : SubmitInsert(email)
    \/ \E t \in 1..MaxTasks, outcome \in {"ok", "not_ok", "threw"} :
          ForwardFinish(t, outcome)
    \/ \E id \in RequestIds : ApproveRequest(id) /\ UNCHANGED gateVars
    \/ \E t \in 1..MaxTasks : SyncLoad(t)
    \/ \E t \in 1..MaxTasks, ok \in BOOLEAN : SyncCreate(t, ok)
    \/ \E t \in 1..MaxTasks : SyncStore(t)
    \/ \E t \in 1..MaxTasks, ok \in BOOLEAN : SyncProgram(t, ok)
    \/ \E t \in 1..MaxTasks : SyncLog(t)
    \/ \E sigOk, hasEmail \in BOOLEAN, type \in EventTypes :
          StripeWebhookReceive(sigOk, type, hasEmail)
    \/ \E createOk, progOk \in BOOLEAN : StripeWebhookFinish(createOk, progOk)

SpecOnboard == InitOnboard /\ [][NextOnboard]_vars

\* The routes behind requireAdmin, called from two client keys over time
InitAdmin ==
    /\ InitData({c \in Configs : c.apiKey /\ c.programId},
                {[full |-> 0, tail |-> <<>>]})
    /\ adminToken \in {"good", ""}
    /\ stripeCfg = TRUE

NextAdmin ==
    \/ FirstOrRefused("e1", TRUE) /\ SubmitApplication("e1", TRUE)
    \/ SubmitInsert("e1")
    \/ \E key \in Keys, token \in Tokens :
          RequireAdmin(key, token, "approve", ApproveRequest(1))
    \/ \E key \in Keys, token \in Tokens :
          RequireAdmin(key, token, "reject", RejectRequest(1))
    \/ Tick

SpecAdmin == InitAdmin /\ [][NextAdmin]_vars

\* Submissions side by side and the admin's three operations on them
InitDesk ==
    InitWith({c \in Configs : c.apiKey /\ c.programId},
             {[full |-> 0, tail |-> <<>>]})

NextDesk ==
    \/ \E email \in Emails, complete \in BOOLEAN : SubmitApplication(email, complete)
    \/ \E email \in Emails : SubmitInsert(email)
    \/ \E id \in RequestIds : ApproveRequest(id) /\ UNCHANGED gateVars
    \/ \E id \in RequestIds : RejectRequest(id) /\ UNCHANGED gateVars
    \/ ClearApplications /\ UNCHANGED gateVars

SpecDesk == InitDesk /\ [][NextDesk]_vars

----------------------------------------------------------------------------
(* Properties *)

PeriodDateOf(periodYm) == ParseDate(periodYm \o <<"-", "0", "1">>)

Finishes(j) == job[j].pc # "done" /\ job'[j].pc = "done"

\* C1: a run that returns totals for the same period, from the same fetched
\* conversions and the same affiliate-to-partner links as the run before it,
\* on the ledger that run left, leaves that ledger as it was: same rows, same
\* gross, net and commission, no additional row.
C1_Idempotent ==
    [][\A j \in Jobs :
          (Finishes(j) /\ job'[j].result = "ok" /\ job'[j].sameAsLast)
              => ledger' = lastRun.ledger]_vars

\* a second run over the same conversions has upserted its buckets
C1_Witness ==
    \E j \in Jobs : /\ job[j].pc = "done" /\ job[j].result = "ok"
                     /\ job[j].sameAsLast /\ job[j].writes = 2

\* C2: the ledger never holds two rows with the same (partner, period,
\* currency), whatever syncs and manual upserts have run.
C2_OneRowPerKey ==
    \A i, k \in 1..Len(ledger) : SameKey(ledger[i], ledger[k]) => i = k

\* a manual upsert (rate 0.12345, held as 0.1235) has overwritten the row a
\* sync wrote for the same key
C2_Witness ==
    /\ Len(ledger) = 1
    /\ ledger[1].commission_rate = 12350
    /\ \E j \in Jobs : job[j].writes = 1 /\ job[j].result = "ok"

\* C3: the step on which a conversions page comes back unsuccessful ends the
\* run with the fetch error, with the ledger untouched by that step and no
\* upsert made earlier in the run.
C3_FetchFailureAborts ==
    [][\A j \in Jobs :
          (~job[j].httpFailed /\ job'[j].httpFailed)
              => /\ job'[j].pc = "done"
                 /\ job'[j].result = "error"
                 /\ job'[j].error = "fetch"
                 /\ job'[j].writes = 0
                 /\ ledger' = ledger]_vars

\* page 1 was fetched in full, a later page failed
C3_Witness ==
    \E j \in Jobs : /\ job[j].httpFailed
                     /\ job[j].requests >= 2
                     /\ Len(job[j].allConversions) >= PAGE_SIZE
                     /\ job[j].error = "fetch"

\* C4: a run that got past the page loop without an error (it goes on to
\* upsert, or has returned totals) has fetched every conversion the service
\* holds for the period.
C4_AggregatesAllHeld ==
    \A j \in Jobs :
        (\/ job[j].pc = "upsert"
         \/ job[j].pc = "done" /\ job[j].result = "ok" /\ job[j].requests > 0)
            => job[j].heldAll

\* YYYY-MM: four digits, a hyphen, two digits
StrictYearMonth(s) ==
    /\ Len(s) = 7
    /\ s[5] = "-"
    /\ \A i \in (1..7) \ {5} : \E d \in 0..9 : s[i] = Digits[d + 1]

\* C5: a run touches the store or the network only with the API key and the
\* program id configured and a period of the form YYYY-MM; any other run ends
\* in an error with no partner query, no page request and no upsert.
C5_ValidatesBeforeIO ==
    \A j \in Jobs :
        LET valid == cfg.apiKey /\ cfg.programId /\ StrictYearMonth(job[j].periodYm)
        IN /\ (job[j].storeAccess \/ job[j].requests > 0 \/ job[j].writes > 0) => valid
           /\ (job[j].pc # "idle" /\ ~valid)
                 => /\ job[j].pc = "done" /\ job[j].result = "error"
                    /\ job[j].error \in {"config", "period"}

\* the run for "2025/01" was rejected, with the service configured and
\* partners linked
C5_Witness ==
    \E j \in Jobs : /\ job[j].periodYm = P_SLASH
                     /\ job[j].error = "period"
                     /\ ~job[j].storeAccess
                     /\ DOMAIN AffiliateToPartner(partners) # {}

\* C6: no run issues more than 5 page requests.
C6_AtMostFivePages == \A j \in Jobs : job[j].requests <= 5

\* five full pages were fetched from a service holding six, and the run went on
C6_Witness ==
    \E j \in Jobs : /\ job[j].requests = 5
                     /\ Len(job[j].allConversions) = 5 * PAGE_SIZE
                     /\ conversions.full = 6
                     /\ job[j].pc \in {"upsert", "done"}

\* the record is an object whose amount is absent, not a number, or <= 0
AmountUnusable(c) ==
    /\ ~c.isNull
    /\ \/ c.amount.t \in {"undef", "nan", "text"}
       \/ c.amount.t \in {"num", "numstr"} /\ c.amount.n <= 0

\* C7: the buckets a run upserts are those of the fetched conversions with a
\* usable amount: a record whose amount is absent, non-numeric or <= 0 adds
\* nothing and creates no bucket.
C7_UnusableAmountAddsNothing ==
    \A j \in Jobs :
        job[j].pc = "upsert" =>
            LET Usable(id) == ~AmountUnusable(ConvTable[id])
            IN job[j].bucket =
                 Aggregate(SelectSeq(job[j].allConversions, Usable), job[j].map).bucket

\* the record carries no affiliate id in any shape, or one that is not linked
MalformedOrForeign(c, map) ==
    c.isNull \/ AffiliateIdOf(c) = "" \/ AffiliateIdOf(c) \notin DOMAIN map

\* C8: malformed and foreign records never end a run: no run stops on an
\* error of the aggregation loop, and the buckets are those of the other
\* records.
C8_MalformedSkipped ==
    \A j \in Jobs :
        LET Others(id) == ~MalformedOrForeign(ConvTable[id], job[j].map)
        IN /\ job[j].error # "type"
           /\ job[j].pc = "upsert" =>
                 job[j].bucket =
                   Aggregate(SelectSeq(job[j].allConversions, Others), job[j].map).bucket

\* C9: once a run has returned totals for a period, every ledger row of that
\* period is a row that run computed from its buckets (no manual upsert has
\* been made, so every row comes from a run).
C9_PeriodRowsReplaced ==
    \A j \in Jobs :
        (job[j].pc = "done" /\ job[j].result = "ok" /\ manualUpserts = 0) =>
            \A i \in 1..Len(ledger) :
                ledger[i].period = PeriodDateOf(job[j].periodYm) =>
                    \E k \in 1..Len(job[j].bucket) :
                        ledger[i] = EarningsRow(BucketArgs(job[j].bucket[k],
                                                           job[j].periodYm))

\* C10 as stated: in every ledger row the commission is the row's net times
\* the row's rate (held in cents).
C10_StoredProduct ==
    \A i \in 1..Len(ledger) :
        ledger[i].commission_amount =
            CommissionCents(ledger[i].net_revenue, ledger[i].commission_rate)

\* C10 as amended: in every totals entry the commission is the entry's net
\* times its rate, rounded once to the cent; in every ledger row the
\* commission lies between the products of the smallest and of the largest
\* net and rate that the columns round to the row's net_revenue and
\* commission_rate.
C10_ProductUpToColumnRounding ==
    /\ \A j \in Jobs : \A k \in 1..Len(job[j].totals) :
          job[j].totals[k].commission_amount =
              CommissionCents(job[j].totals[k].net, job[j].totals[k].commission_rate)
    /\ \A i \in 1..Len(ledger) :
          LET r == ledger[i]
          IN /\ CommissionCents(Max(r.net_revenue - CENT \div 2, 0),
                                Max(r.commission_rate - RATE_STEP \div 2, 0))
                  <= r.commission_amount
             /\ r.commission_amount
                  <= CommissionCents(r.net_revenue + CENT \div 2,
                                     r.commission_rate + RATE_STEP \div 2)

\* a run has returned a total with a commission, and a row's commission is
\* not the product of its stored net and rate
C10_Witness ==
    /\ \E j \in Jobs : \E k \in 1..Len(job[j].totals) :
          job[j].totals[k].commission_amount > 0
    /\ \E i \in 1..Len(ledger) :
          ledger[i].commission_amount #
              CommissionCents(ledger[i].net_revenue, ledger[i].commission_rate)

\* the record is counted: it names a linked affiliate and carries an amount
\* the loop accepts
Counted(conv, map) ==
    /\ ~conv.isNull
    /\ AffiliateIdOf(conv) \in DOMAIN map
    /\ ~GrossRejected(GrossOf(conv))

\* max(gross - (gross * feePercent + feeFixed), 0)
RefNet(gross) ==
    LET fee == (gross * STRIPE_FEE_PERCENT) \div 1000 + STRIPE_FEE_FIXED
    IN IF gross - fee > 0 THEN gross - fee ELSE 0

\* C11: the net of every counted conversion is
\* max(gross - (gross * feePercent + feeFixed), 0), and the net of each
\* conversion and of each bucket is at least 0 and at most the gross.
C11_NetWithinGross ==
    \A j \in Jobs :
        /\ \A k \in 1..Len(job[j].bucket) :
              0 <= job[j].bucket[k].net /\ job[j].bucket[k].net <= job[j].bucket[k].gross
        /\ \A id \in {job[j].allConversions[i] : i \in 1..Len(job[j].allConversions)} :
              Counted(ConvTable[id], job[j].map) =>
                  LET g == GrossOf(ConvTable[id]).n
                  IN NetOf(g) = RefNet(g) /\ 0 <= NetOf(g) /\ NetOf(g) <= g

\* a conversion of 0.30, whose fee exceeds it, was counted with net 0
C11_Witness ==
    \E j \in Jobs : /\ job[j].pc \in {"upsert", "done"}
                     /\ Len(job[j].bucket) = 1
                     /\ job[j].bucket[1].gross = 30000
                     /\ job[j].bucket[1].net = 0

Occurrences(ids, id) == Cardinality({i \in 1..Len(ids) : ids[i] = id})

\* the currency of a record, lowercase, "usd" when it carries none
RefCurrency(conv) ==
    IF conv.currency = NoStr /\ conv.commission_currency = NoStr THEN usd
    ELSE ToLowerCase(IF conv.currency # NoStr THEN conv.currency
                     ELSE conv.commission_currency)

RefPair(id, map) ==
    <<map[AffiliateIdOf(ConvTable[id])], RefCurrency(ConvTable[id])>>

\* the sum, over the records of S as often as they occur in ids, of the gross
\* (net = FALSE) or of the net (net = TRUE)
RECURSIVE RefSum(_, _, _)
RefSum(S, ids, net) ==
    IF S = {} THEN 0
    ELSE LET id == CHOOSE x \in S : TRUE
             g == GrossOf(ConvTable[id]).n
         IN Occurrences(ids, id) * (IF net THEN RefNet(g) ELSE g)
              + RefSum(S \ {id}, ids, net)

\* C12: once the aggregation of a run is through, its buckets are those of
\* the reference: one per distinct (partner, lowercase currency) pair of the
\* counted conversions, each with the sums of gross and net over the counted
\* conversions of its pair; and a run over the single conversion of 100 USD
\* leaves the row gross 100, net 96.8, commission 33.88 under "usd".
C12_ReferenceAggregation ==
    \A j \in Jobs :
        LET all == job[j].allConversions
            map == job[j].map
            counted == {id \in {all[i] : i \in 1..Len(all)} : Counted(ConvTable[id], map)}
            pairs == {RefPair(id, map) : id \in counted}
            b == job[j].bucket
        IN /\ (job[j].pc = "upsert" \/ (job[j].pc = "done" /\ job[j].result = "ok"))
                => /\ Len(b) = Cardinality(pairs)
                   /\ \A k, l \in 1..Len(b) :
                         (b[k].partnerId = b[l].partnerId /\ b[k].currency = b[l].currency)
                             => k = l
                   /\ \A k \in 1..Len(b) :
                         LET mine == {id \in counted :
                                        RefPair(id, map) = <<b[k].partnerId, b[k].currency>>}
                         IN /\ mine # {}
                            /\ b[k].gross = RefSum(mine, all, FALSE)
                            /\ b[k].net = RefSum(mine, all, TRUE)
           /\ (job[j].pc = "done" /\ job[j].result = "ok" /\ all = <<2>>
                  /\ "A1" \in DOMAIN map)
                => \E i \in 1..Len(ledger) :
                      /\ ledger[i].partner_id = map["A1"]
                      /\ ledger[i].period = PeriodDateOf(job[j].periodYm)
                      /\ ledger[i].currency = usd
                      /\ ledger[i].gross_revenue = 10000000
                      /\ ledger[i].net_revenue = 9680000
                      /\ ledger[i].commission_amount = 3388000

\* fifty conversions of 1 "usd" and one of 100 "USD" made one bucket of 150
C12_Witness ==
    \E j \in Jobs : /\ job[j].pc = "done" /\ job[j].result = "ok"
                     /\ Len(job[j].allConversions) = PAGE_SIZE + 1
                     /\ job[j].allConversions[PAGE_SIZE + 1] = 2
                     /\ Len(job[j].bucket) = 1
                     /\ job[j].bucket[1].gross = 15000000
                     /\ job[j].bucket[1].currency = usd

\* C13: a run whose fetched conversions are all skipped creates no bucket,
\* makes no upsert and returns an empty totals list.
C13_AllSkippedWritesNothing ==
    \A j \in Jobs :
        (/\ job[j].pc \in {"upsert", "done"}
         /\ job[j].requests > 0
         /\ ~job[j].httpFailed
         /\ \A i \in 1..Len(job[j].allConversions) :
               LET conv == ConvTable[job[j].allConversions[i]]
               IN ~conv.isNull /\ ~Counted(conv, job[j].map))
            => /\ job[j].pc = "done"
               /\ job[j].result = "ok"
               /\ job[j].bucket = <<>>
               /\ job[j].writes = 0
               /\ job[j].totals = <<>>
               /\ ledger = <<>>

\* the only conversion had amount 0, for a linked affiliate
C13_Witness ==
    \E j \in Jobs : /\ job[j].pc = "done" /\ job[j].result = "ok"
                     /\ job[j].allConversions = <<3>>
                     /\ "A1" \in DOMAIN job[j].map
                     /\ job[j].totals = <<>>

\* C14: a run started with the service configured, a period YYYY-MM and no
\* partner carrying an affiliate id returns at once the normal result with
\* the period asked, empty totals and the note; it issues no page request and
\* writes nothing.
C14_NoLinkedPartnerReturnsEarly ==
    [][\A j \in Jobs :
          (/\ job[j].pc \in {"idle", "done"}
           /\ job'[j] # job[j]
           /\ cfg.apiKey /\ cfg.programId
           /\ StrictYearMonth(job'[j].periodYm)
           /\ \A i \in 1..Len(partners) : partners[i].tapfiliate_affiliate_id = "")
              => /\ job'[j].pc = "done"
                 /\ job'[j].result = "ok"
                 /\ job'[j].note = "no_partners"
                 /\ job'[j].totals = <<>>
                 /\ job'[j].requests = 0
                 /\ job'[j].writes = 0
                 /\ ledger' = ledger]_vars

\* the run ended early although a partner exists (without affiliate id) and
\* the service holds conversions
C14_Witness ==
    \E j \in Jobs : /\ job[j].pc = "done" /\ job[j].note = "no_partners"
                     /\ Len(partners) > 0
                     /\ conversions.tail # <<>>
                     /\ job[j].requests = 0

\* C15: in every ledger row the period is the first day of a month and the
\* currency code is lowercase.
C15_NormalFormKeys ==
    \A i \in 1..Len(ledger) :
        /\ ledger[i].period.d = 1
        /\ ledger[i].currency = ToLowerCase(ledger[i].currency)

\* the ledger led is the ledger start after one upsert per bucket: the row of
\* every bucket is there, every other row is a row of start under another
\* key, no such row of start is missing, and no key has two rows
LedgerAfterOneRun(start, bucket, periodYm, led) ==
    LET row(k) == EarningsRow(BucketArgs(bucket[k], periodYm))
        B == 1..Len(bucket)
    IN /\ \A k \in B : \E i \in 1..Len(led) : led[i] = row(k)
       /\ \A i \in 1..Len(led) :
             \/ \E k \in B : led[i] = row(k)
             \/ /\ \E m \in 1..Len(start) : start[m] = led[i]
                /\ \A k \in B : ~SameKey(led[i], row(k))
       /\ \A m \in 1..Len(start) :
             (\A k \in B : ~SameKey(start[m], row(k)))
                 => \E i \in 1..Len(led) : led[i] = start[m]
       /\ \A i, k \in 1..Len(led) : SameKey(led[i], led[k]) => i = k

\* C16: a run that an upsert failure ended has stopped at that bucket with an
\* error, without another attempt; and when the next run, for the same period
\* over the same conversions and links, returns totals, the ledger is the one
\* a single run would have made of the ledger the failed run started on,
\* whichever bucket the failed run stopped at.
C16_RerunAfterWriteFailure ==
    \A j \in Jobs :
        /\ job[j].error = "store"
              => /\ job[j].pc = "done" /\ job[j].result = "error"
                 /\ job[j].next <= Len(job[j].bucket)
                 /\ job[j].writes = job[j].next - 1
        /\ (/\ job[j].pc = "done" /\ job[j].result = "ok" /\ job[j].alone
             /\ job[j].prev.failed /\ job[j].prev.alone
             /\ job[j].prev.periodYm = job[j].periodYm
             /\ job[j].prev.fetched = job[j].allConversions
             /\ job[j].prev.map = job[j].map)
              => LedgerAfterOneRun(job[j].prev.start, job[j].bucket,
                                   job[j].periodYm, ledger)

\* the failed run had written one of its two buckets, the next run wrote both
C16_Witness ==
    \E j \in Jobs : /\ job[j].pc = "done" /\ job[j].result = "ok" /\ job[j].alone
                     /\ job[j].prev.failed /\ job[j].prev.alone
                     /\ job[j].prev.writes = 1
                     /\ job[j].prev.fetched = job[j].allConversions
                     /\ job[j].prev.map = job[j].map
                     /\ job[j].prev.periodYm = job[j].periodYm
                     /\ job[j].writes = 2

\* C17: with two runs side by side, no key ever has two rows and no run ends
\* in an error; and when both have returned totals for the same period over
\* the same conversions and links, the ledger is the one a single run would
\* have made of the ledger one of them started on.
C17_ConcurrentRuns ==
    /\ \A i, k \in 1..Len(ledger) : SameKey(ledger[i], ledger[k]) => i = k
    /\ \A j \in Jobs : job[j].result # "error"
    /\ \A j, k \in Jobs :
          (/\ j # k
           /\ job[j].pc = "done" /\ job[j].result = "ok"
           /\ job[k].pc = "done" /\ job[k].result = "ok"
           /\ job[j].periodYm = job[k].periodYm
           /\ job[j].allConversions = job[k].allConversions
           /\ job[j].map = job[k].map)
              => \E r \in {j, k} :
                    LedgerAfterOneRun(job[r].start, job[r].bucket,
                                      job[r].periodYm, ledger)

\* both runs made their two upserts, each while the other was between its own
C17_Witness ==
    /\ \A j \in Jobs : /\ job[j].pc = "done" /\ job[j].result = "ok"
                         /\ job[j].writes = 2
                         /\ job[j].interleaved
    /\ job[1].periodYm = job[2].periodYm
    /\ Len(ledger) = 2

\* C18: an affiliate id stored on an application is never replaced by another
\* one: the application carries the first id that was stored on it.
C18_FirstWriteWins ==
    \A i \in 1..Len(apps) :
        apps[i].first # "" => apps[i].tapfiliate_affiliate_id = apps[i].first

\* C19: no request is held back until the call made beside it has come to
\* its end, and the responses of an endpoint that report success all carry
\* the same body.
C19_SideEffectsNeverBlock ==
    /\ hook # "awaiting"
    /\ \A r, q \in replies :
          (r.endpoint = q.endpoint /\ r.status = 200 /\ q.status = 200)
              => r.body = q.body

C21_SequentialPages ==
    [][\A j \in Jobs :
          /\ job'[j].requests > job[j].requests
                => /\ job[j].pc = "fetch"
                   /\ job'[j].requests = job[j].requests + 1
                   /\ job[j].page = job[j].requests + 1
                   /\ Len(job[j].allConversions) = job[j].requests * PAGE_SIZE
                   /\ job[j].writes = 0
          /\ (job[j].pc = "fetch" /\ job'[j].pc = "fetch")
                => /\ job'[j].page = job[j].page + 1
                   /\ Len(job'[j].allConversions)
                        = Len(job[j].allConversions) + PAGE_SIZE
          /\ job'[j].writes > job[j].writes
                => /\ job[j].pc = "upsert"
                   /\ job'[j].requests = job[j].requests]_vars

\* page 2 came back short after a full page 1, and the upserts followed
C21_Witness ==
    \E j \in Jobs : /\ job[j].requests = 2
                     /\ Len(job[j].allConversions) = PAGE_SIZE + 1
                     /\ job[j].writes >= 1

\* new Date(Date.UTC(year, monthIndex, 1)) as a calendar month: a month index
\* outside 0..11 carries into the year, a year of 0..99 counts from 1900
UtcMonth(year, monthIndex) ==
    LET full == IF year \in 0..99 THEN 1900 + year ELSE year
    IN [y |-> full + ((monthIndex + 12) \div 12) - 1,
        m |-> ((monthIndex + 12) % 12) + 1]

\* periodStart and periodEnd, the bounds of the fetch interval
PeriodStart(periodYm) ==
    UtcMonth(DigitsToNumber(SubSeq(periodYm, 1, 4)),
             DigitsToNumber(SubSeq(periodYm, 6, 7)) - 1)

PeriodEnd(periodYm) ==
    UtcMonth(DigitsToNumber(SubSeq(periodYm, 1, 4)),
             DigitsToNumber(SubSeq(periodYm, 6, 7)))

\* C27: a period the job has accepted (it got past the format check) has a
\* month part of 01..12, the fetch interval runs from the first instant of
\* that month to the first instant of the month after it, and the ledger
\* date of the run is the first day of that month.
C27_AcceptedPeriodIsAMonth ==
    \A j \in Jobs :
        (job[j].pc # "idle" /\ job[j].error \notin {"config", "period"})
          => LET year == DigitsToNumber(SubSeq(job[j].periodYm, 1, 4))
                 month == DigitsToNumber(SubSeq(job[j].periodYm, 6, 7))
             IN /\ month \in 1..12
                /\ PeriodStart(job[j].periodYm) = [y |-> year, m |-> month]
                /\ PeriodEnd(job[j].periodYm)
                     = IF month = 12 THEN [y |-> year + 1, m |-> 1]
                       ELSE [y |-> year, m |-> month + 1]
                /\ PeriodDateOf(job[j].periodYm)
                     = [y |-> year, m |-> month, d |-> 1]

\* C25: no two partners rows carry the same application id, and an approve
\* call for an application that already has its partner row leaves the
\* partners table as it was.
C25_OnePartnerPerApplication ==
    /\ [][\A i, k \in 1..Len(partners') :
             (i # k /\ partners'[i].application_id # 0)
               => partners'[i].application_id # partners'[k].application_id]_vars
    /\ [][\A id \in RequestIds :
             (/\ Len(adminLogs') = Len(adminLogs) + 1
              /\ adminLogs'[Len(adminLogs')] = LogEntry("approve", id, "")
              /\ \E i \in 1..Len(partners) : partners[i].application_id = id)
               => partners' = partners]_vars

\* application 1 was approved twice and has one partner row
C25_Witness ==
    /\ Cardinality({n \in 1..Len(adminLogs) :
                       adminLogs[n] = LogEntry("approve", 1, "")}) >= 2
    /\ \E i \in 1..Len(apps) : apps[i].id = 1 /\ apps[i].status = "approved"
    /\ Cardinality({i \in 1..Len(partners) : partners[i].application_id = 1}) = 1

\* C28: once a sync of an approved application has gone through (its log
\* entry is written), the partners row of that application carries the
\* affiliate id the sync stored, which is what the earnings job maps by.
C28_ApprovalLinksPartner ==
    \A t \in 1..Len(tasks) :
        (tasks[t].kind = "sync" /\ tasks[t].logged)
          => \E i \in 1..Len(partners) :
                /\ partners[i].application_id = tasks[t].app
                /\ partners[i].tapfiliate_affiliate_id = tasks[t].affiliateId
                /\ tasks[t].affiliateId \in DOMAIN AffiliateToPartner(partners)
                /\ AffiliateToPartner(partners)[tasks[t].affiliateId]
                     = partners[i].id

\* a request from key with token to one of the routes behind requireAdmin
AdminRequest(key, token) ==
    \/ RequireAdmin(key, token, "approve", ApproveRequest(1))
    \/ RequireAdmin(key, token, "reject", RejectRequest(1))

Denied(status) == Reply("admin", status, "denied")

TokenValid(token) == token # "" /\ token = adminToken

\* C22: a failed attempt that brings a key's count to 3 or more locks the key
\* until 2 hours later; while a key is locked, each of its requests, with
\* whatever token, is answered 429, runs no handler, and leaves the whole of
\* adminAttempts as it was; no request changes the entry of another key, and
\* time passing changes no entry.
C22_Lockout ==
    /\ [][\A key \in Keys, token \in Tokens :
             AdminRequest(key, token)
               => /\ Locked(adminAttempts[key], now)
                       => /\ Denied(429) \in replies'
                          /\ replies' = replies \cup {Denied(429)}
                          /\ adminAttempts' = adminAttempts
                          /\ UNCHANGED <<apps, partners, ledger, adminLogs, tasks>>
                  /\ (~Locked(adminAttempts[key], now) /\ ~TokenValid(token)
                        /\ adminAttempts[key].count + 1 >= LOCK_AFTER)
                       => /\ adminAttempts'[key].count >= LOCK_AFTER
                          /\ adminAttempts'[key].lockedUntil = now + WINDOW_HOURS
                          /\ \A t \in now..(now + WINDOW_HOURS - 1) :
                                Locked(adminAttempts'[key], t)
                  /\ \A other \in Keys \ {key} :
                        adminAttempts'[other] = adminAttempts[other]]_vars
    /\ [][now' # now => adminAttempts' = adminAttempts]_vars

\* a key is locked and was answered 429 while the other key, two failures
\* in, is not locked
C22_Witness ==
    /\ adminToken = "good"
    /\ Denied(429) \in replies
    /\ \E key \in Keys :
          /\ adminAttempts[key].count >= LOCK_AFTER
          /\ Locked(adminAttempts[key], now)
          /\ \E other \in Keys \ {key} :
                /\ adminAttempts[other].count = LOCK_AFTER - 1
                /\ ~Locked(adminAttempts[other], now)

\* C23: a request whose token is missing or is not the configured
\* ADMIN_API_TOKEN (any token when none is configured) is answered 401 or
\* 429 and changes no application, partner, ledger or log data; a request
\* after which a handler has run carried the configured token and came from
\* a key that was not locked.
C23_OnlyTheTokenPasses ==
    [][\A key \in Keys, token \in Tokens :
          AdminRequest(key, token)
            => /\ ~TokenValid(token)
                    => /\ \E status \in {401, 429} :
                             replies' = replies \cup {Denied(status)}
                       /\ UNCHANGED <<apps, partners, ledger, adminLogs, tasks>>
               /\ (\/ adminLogs' # adminLogs
                   \/ apps' # apps
                   \/ partners' # partners
                   \/ tasks' # tasks
                   \/ replies' \ replies \notin {{}, {Denied(401)}, {Denied(429)}})
                    => /\ TokenValid(token)
                       /\ ~Locked(adminAttempts[key], now)]_vars

\* with no token configured, requests about the stored application were
\* answered 401 until the key was locked, and nothing was written
C23_Witness ==
    /\ adminToken = ""
    /\ Denied(401) \in replies /\ Denied(429) \in replies
    /\ Len(apps) = 1 /\ apps[1].status = "pending"
    /\ adminLogs = <<>> /\ partners = <<>>

\* the lock of the key's entry has run out, the count is still there
Expired(record, t) ==
    /\ record.count >= LOCK_AFTER
    /\ record.lockedUntil # 0
    /\ t >= record.lockedUntil

\* C30: a key's count goes down only in a request from that key that carries
\* the configured token while the key is not locked, and then count and lock
\* are both cleared; the running out of a lock leaves the count, so that the
\* next failed attempt adds one to it and locks the key until 2 hours later.
C30_CountOutlivesLock ==
    /\ [][\A key \in Keys :
             adminAttempts'[key].count < adminAttempts[key].count
               => /\ \E token \in Tokens :
                        AdminRequest(key, token) /\ TokenValid(token)
                  /\ ~Locked(adminAttempts[key], now)
                  /\ adminAttempts'[key] = NoRecord]_vars
    /\ [][\A key \in Keys, token \in Tokens :
             (AdminRequest(key, token) /\ Expired(adminAttempts[key], now))
               => IF TokenValid(token)
                  THEN adminAttempts'[key] = NoRecord
                  ELSE /\ adminAttempts'[key].count = adminAttempts[key].count + 1
                       /\ adminAttempts'[key].lockedUntil = now + WINDOW_HOURS
                       /\ Denied(401) \in replies']_vars

\* a key locked again by its first failure after its lock had run out
C30_Witness ==
    \E key \in Keys :
        /\ adminAttempts[key].count = LOCK_AFTER + 1
        /\ adminAttempts[key].lockedUntil = now + WINDOW_HOURS
        /\ now >= 1 + WINDOW_HOURS

\* C24: partner_applications holds at most one row per email, whatever
\* submissions were made and however their steps fell between each other.
C24_OneRowPerEmail ==
    \A i, k \in 1..Len(apps) : i # k => apps[i].email # apps[k].email

\* C26: the webhook goes on to the affiliate creation only when Stripe is
\* configured and the event is verified, of type checkout.session.completed
\* and carries an email; otherwise it answers at once, 500 when Stripe is not
\* configured, 400 when the verification failed, and makes no Tapfiliate call
\* and no partners insert; a partners row is added only when Tapfiliate is
\* configured and both the creation and the add-to-program call succeeded.
C26_WebhookCreatesOnlyForCheckout ==
    /\ [][\A sigOk, hasEmail \in BOOLEAN, type \in EventTypes :
             StripeWebhookReceive(sigOk, type, hasEmail)
               => /\ tapAffiliates' = tapAffiliates /\ partners' = partners
                  /\ hook' = "awaiting"
                       <=> (stripeCfg /\ sigOk /\ type = COMPLETED /\ hasEmail)
                  /\ ~stripeCfg
                       => replies' = replies \cup {Reply("stripe", 500, "error")}
                  /\ (stripeCfg /\ ~sigOk)
                       => replies' = replies \cup {Reply("stripe", 400, "error")}]_vars
    /\ [][\A createOk, progOk \in BOOLEAN :
             StripeWebhookFinish(createOk, progOk)
               => /\ tapAffiliates' # tapAffiliates
                       => cfg.apiKey /\ cfg.programId /\ createOk
                  /\ partners' # partners
                       => /\ cfg.apiKey /\ cfg.programId /\ createOk /\ progOk
                          /\ tapAffiliates' = tapAffiliates + 1
                          /\ partners' = Append(partners,
                                 PartnerRow(Len(partners) + 1, 0,
                                            AffNames[tapAffiliates'])) ]_vars
    /\ [][(hook # "awaiting" /\ hook' = hook)
             => \A i \in 1..Len(partners') :
                   partners'[i].application_id = 0 => i \in 1..Len(partners)]_vars

\* the webhook has refused an unverified event, taken a checkout event
\* through to a partners row, and is serving another one
C26_Witness ==
    /\ stripeCfg
    /\ Reply("stripe", 400, "error") \in replies
    /\ Reply("stripe", 200, "received") \in replies
    /\ \E i \in 1..Len(partners) :
          partners[i].application_id = 0 /\ partners[i].tapfiliate_affiliate_id # ""
    /\ hook = "awaiting"

\* C29: every partners row with an application id refers to a row of
\* partner_applications whose status is approved.
C29_PartnersOfApproved ==
    \A i \in 1..Len(partners) :
        partners[i].application_id # 0
          => \E k \in 1..Len(apps) :
                /\ apps[k].id = partners[i].application_id
                /\ apps[k].status = "approved"

====
